---- MODULE Spec2Model ----
(***************************************************************************)
(* Model of cenv (src/src/main.rs): a supervisor that wires the standard   *)
(* streams of one child process, runs it, and in --atomic mode stages      *)
(* every output file as a temp file that a scope guard renames into place. *)
(*                                                                         *)
(* The file system is modelled with inodes: `files` is the sequence of     *)
(* file contents (index = inode), `fs` maps a path to the inode it names   *)
(* (0 = the path does not exist), `tmpnames` is the set of inodes that     *)
(* still have a temp name in the staging directory, and `ofds` are the     *)
(* open file descriptions (inode + offset) the child's handles point at.   *)
(***************************************************************************)
EXTENDS Integers, Sequences, FiniteSets, TLC

\* -------------------------------------------------------------------------
\* Bounds of the model
\* -------------------------------------------------------------------------
\* bytes the child writes to each of its two output streams, at most
MaxWrite == 1
\* the largest exit code the child returns in the model
MaxCode == 12

\* paths of the file system; --out-file / --err-file / --in-file name one of
\* StreamPaths and --exit-file one of ExitPaths, so destinations may coincide
Paths == {"A", "B", "C"}
StreamPaths == {"A", "B"}
ExitPaths == {"A", "C"}
Bool == {TRUE, FALSE}
\* exit codes of one and of two digits
ExitCodes == {0, 7, MaxCode}
\* Option<i32>: <<>> is None (killed by a signal), <<c>> is Some(c)
Statuses == {<<>>} \cup {<<c>> : c \in ExitCodes}
\* content a destination may hold before the run
OldContent == <<"x", "x">>

\* exit status of a Rust process whose main thread panicked
PanicStatus == 101

\* -------------------------------------------------------------------------
\* Dispositions (enum StdIn, enum StdStream)
\* -------------------------------------------------------------------------
Null == [tag |-> "Null", path |-> ""]
Inherit == [tag |-> "Inherit", path |-> ""]
Other == [tag |-> "Other", path |-> ""]
Redirect(p) == [tag |-> "Redirect", path |-> p]

\* fn stream_file_arg: arg is <<>> (None) or <<s>> (Some(s))
stream_file_arg(arg) ==
    IF arg # <<>>
    THEN IF arg[1] = "-" THEN Inherit ELSE Redirect(arg[1])
    ELSE Inherit

\* fn stdin_file_arg
stdin_file_arg(arg) ==
    IF arg # <<>>
    THEN IF arg[1] = "-" THEN Inherit ELSE Redirect(arg[1])
    ELSE Inherit

\* extract_args, the stdin_arg expression
stdin_arg(f) ==
    IF f.null THEN Null ELSE stdin_file_arg(f.file)

\* mutant: the share flag is tested before the null flag
stream_arg_share_first(f) ==
    IF f.other THEN Other
    ELSE IF f.null THEN Null
    ELSE stream_file_arg(f.file)

\* extract_args, the stdout_arg / stderr_arg expressions
stream_arg(f) ==
    IF f.null THEN Null
    ELSE IF f.other THEN Other
    ELSE stream_file_arg(f.file)

\* values a path option may take on the command line
FileArgs == {<<>>, <<"-">>} \cup {<<p>> : p \in StreamPaths}

\* ArgGroup STDOUT / STDERR: at most one of the three flags is present
StreamFlags ==
    {f \in [null : Bool, other : Bool, file : FileArgs] :
        /\ ~(f.null /\ f.other)
        /\ ~(f.null /\ f.file # <<>>)
        /\ ~(f.other /\ f.file # <<>>)}

\* ArgGroup STDIN: at most one of --in-file / --in-null
StdinFlags ==
    {f \in [null : Bool, file : {<<>>, <<"A">>}] : ~(f.null /\ f.file # <<>>)}

\* -------------------------------------------------------------------------
\* Pure helpers
\* -------------------------------------------------------------------------
\* exitcode.code().unwrap_or(0)
UnwrapOr0(s) == IF s = <<>> THEN 0 ELSE s[1]

DigitChar(d) == <<"0", "1", "2", "3", "4", "5", "6", "7", "8", "9">>[d + 1]

\* mutant: only the last digit is written
DecimalLastDigit(n) == <<DigitChar(n % 10)>>

\* write!(f, "{}", n): the decimal text of a non-negative integer
RECURSIVE Decimal(_)
Decimal(n) ==
    IF n < 10 THEN <<DigitChar(n)>>
    ELSE Append(Decimal(n \div 10), DigitChar(n % 10))

RECURSIVE Repeat(_, _)
Repeat(b, n) == IF n = 0 THEN <<>> ELSE Append(Repeat(b, n - 1), b)

\* write(2) of one byte at offset off of a file without O_APPEND
WriteAt(content, off, b) ==
    IF off < Len(content)
    THEN [content EXCEPT ![off + 1] = b]
    ELSE content \o Repeat("_", off - Len(content)) \o <<b>>

\* a handle given to std::process::Stdio
NoHandle == [kind |-> "none", ref |-> 0]
NullHandle == [kind |-> "null", ref |-> 0]
InheritHandle == [kind |-> "inherit", ref |-> 0]
DupStdout == [kind |-> "dup_parent_stdout", ref |-> 0]
DupStderr == [kind |-> "dup_parent_stderr", ref |-> 0]
FileHandle(o) == [kind |-> "file", ref |-> o]

VARIABLES
    is_atomic,      \* argv.is_atomic
    in_flags,       \* --in-null / --in-file as given
    out_flags,      \* --out-null / --out-err / --out-file as given
    err_flags,      \* --err-null / --err-out / --err-file as given
    exitfile,       \* argv.exitfile: <<>> or <<path>>
    tmpdir,         \* argv.tmpdir given
    workdir,        \* argv.workdir given
    fs0,            \* the file system before the run: path -> content or <<"absent">>
    pc,             \* position of run()
    panicked,       \* run() is unwinding
    files,          \* inode -> content
    fs,             \* path -> inode, 0 when the path does not exist
    tmpnames,       \* inodes that have a name in the staging directory
    ofds,           \* open file descriptions: [file, off]
    to_move,        \* the guarded Vec<(NamedTempFile, PathBuf)>
    stdio_in, stdio_out, stdio_err,   \* result of create_stdio
    child,          \* "none", "running", "exited", "reaped"
    status,         \* the child's ExitStatus once it exited
    nout, nerr,     \* bytes the child has written to its stdout / stderr
    con_out, con_err,   \* bytes that reached the supervisor's own stdout / stderr
    exitcode,       \* result of result.wait(): <<>> until waited, then <<status>>
    sup_exit,       \* exit status of the supervisor: <<>> until it exits
    log,            \* history: file operations of the supervisor, in order
    resolved,       \* the dispositions extract_args put into Argv
    env_args,       \* argv.env_clear, argv.env_unset, argv.env_set as given
    parent_env,     \* the environment of the supervisor
    unset_it,       \* what is left of the iterator argv.env_unset
    set_it,         \* what is left of the iterator argv.env_set
    cmd_env,        \* the environment changes recorded in the Command
    child_env       \* the environment the child is started with

vars == <<is_atomic, in_flags, out_flags, err_flags, exitfile, tmpdir, workdir,
          fs0, pc, panicked, files, fs, tmpnames, ofds, to_move,
          stdio_in, stdio_out, stdio_err, child, status, nout, nerr,
          con_out, con_err, exitcode, sup_exit, log,
          resolved, env_args, parent_env, unset_it, set_it, cmd_env, child_env>>

\* the environment of the child and what it is made from
envs == <<env_args, parent_env, unset_it, set_it, cmd_env, child_env>>
\* what the steps of running the child leave alone
config == <<is_atomic, in_flags, out_flags, err_flags, exitfile, tmpdir,
            workdir, fs0, resolved, envs>>
disk == <<files, fs, tmpnames, ofds>>
kid == <<child, status, nout, nerr, con_out, con_err>>
stdio == <<stdio_in, stdio_out, stdio_err>>

Absent == <<"absent">>

stdin == stdin_arg(in_flags)
stdout == stream_arg(out_flags)
stderr == stream_arg(err_flags)

\* content of the file a path names, Absent when there is none
ContentOf(p) == IF fs[p] = 0 THEN Absent ELSE files[fs[p]]

Ev(op, f, p) == [op |-> op, file |-> f, path |-> p]

\* the file system before the run: no path of Paths exists, or every path
\* names a file that holds OldContent
PriorStates == {[p \in Paths |-> Absent], [p \in Paths |-> OldContent]}

\* the inode a path names before the run, when it names one
InitialInode(p) == IF p = "A" THEN 1 ELSE IF p = "B" THEN 2 ELSE 3

\* the state of run() before its first step
RunStart ==
    /\ panicked = FALSE
    /\ files = <<OldContent, OldContent, OldContent>>
    /\ fs = [p \in Paths |-> IF fs0[p] = Absent THEN 0 ELSE InitialInode(p)]
    /\ tmpnames = {}
    /\ ofds = <<>>
    /\ to_move = <<>>
    /\ stdio_in = NoHandle
    /\ stdio_out = NoHandle
    /\ stdio_err = NoHandle
    /\ child = "none"
    /\ status = <<>>
    /\ nout = 0
    /\ nerr = 0
    /\ con_out = <<>>
    /\ con_err = <<>>
    /\ exitcode = <<>>
    /\ sup_exit = <<>>
    /\ log = <<>>

\* an environment without variables; a Command without environment changes
NoEnv == <<>>
NoChanges == [clear |-> FALSE, vars |-> NoEnv]

\* a command line without --no-environment, --unset and --env
EnvUntouched ==
    /\ env_args = [noenv |-> FALSE, unset |-> <<>>, set |-> <<>>]
    /\ parent_env = NoEnv
    /\ unset_it = <<>>
    /\ set_it = <<>>
    /\ cmd_env = NoChanges
    /\ child_env = NoEnv

Init ==
    /\ is_atomic \in Bool
    /\ in_flags \in StdinFlags
    /\ out_flags \in StreamFlags
    /\ err_flags \in StreamFlags
    /\ exitfile \in {<<>>} \cup {<<p>> : p \in ExitPaths}
    /\ tmpdir \in Bool
    /\ workdir \in Bool
    /\ fs0 \in PriorStates
    /\ pc = "tmpdir"
    /\ RunStart
    /\ resolved = <<>>
    /\ EnvUntouched

\* mutant: to_move is a plain Vec, which a panic leaves undrained
PanicWithoutGuard ==
    /\ panicked' = TRUE
    /\ pc' = "done"

\* a panic!(): run() stops where it is and unwinds, which drops the guard
Panic ==
    /\ panicked' = TRUE
    /\ pc' = "drain"

\* main.rs 269-274: create the staging directory when --tmpdir is given
CreateTmpdir ==
    /\ pc = "tmpdir"
    /\ \/ /\ pc' = "stdin"
          /\ UNCHANGED <<panicked, log>>
       \/ /\ tmpdir
          /\ Panic
          /\ log' = Append(log, Ev("panic", 0, "tmpdir"))
    /\ UNCHANGED <<config, disk, to_move, stdio, kid, exitcode, sup_exit>>

\* -------------------------------------------------------------------------
\* The Sink Provisioner: the two closures handed to create_stdio.
\* Each returns the set of outcomes the call can have; an outcome is the
\* file system after the call, the handle when it succeeded, and the file
\* operations performed.
\* -------------------------------------------------------------------------
World == [files |-> files, fs |-> fs, tmpnames |-> tmpnames, ofds |-> ofds,
          to_move |-> to_move]

\* main.rs 281-287: the closure of atomic mode
create_file_atomic(path) ==
    LET id == Len(files) + 1
        o == Len(ofds) + 1
    IN  { \* create_in(&tempdir)? fails: nothing happened
          [ok |-> FALSE, handle |-> NoHandle, w |-> World,
           ev |-> <<Ev("tmp_create_failed", 0, path)>>],
          \* tmp.reopen()? fails: tmp is dropped, which deletes the temp file
          [ok |-> FALSE, handle |-> NoHandle,
           w |-> [World EXCEPT !.files = Append(files, <<>>)],
           ev |-> <<Ev("tmp_create", id, path), Ev("tmp_delete", id, path)>>],
          \* to_move.push((tmp, path.into())); Ok(f)
          [ok |-> TRUE, handle |-> FileHandle(o),
           w |-> [World EXCEPT !.files = Append(files, <<>>),
                               !.tmpnames = tmpnames \cup {id},
                               !.ofds = Append(ofds, [file |-> id, off |-> 0]),
                               !.to_move = Append(to_move,
                                                  [tmp |-> id, dest |-> path])],
           ev |-> <<Ev("tmp_create", id, path), Ev("push", id, path)>>] }

\* mutant: the file is opened for writing without O_TRUNC
create_file_keep_content(path) ==
    LET id == IF fs[path] = 0 THEN Len(files) + 1 ELSE fs[path]
        o == Len(ofds) + 1
    IN  { [ok |-> FALSE, handle |-> NoHandle, w |-> World,
           ev |-> <<Ev("create_failed", 0, path)>>],
          [ok |-> TRUE, handle |-> FileHandle(o),
           w |-> [World EXCEPT
                    !.files = IF fs[path] = 0 THEN Append(files, <<>>)
                              ELSE files,
                    !.fs = [fs EXCEPT ![path] = id],
                    !.ofds = Append(ofds, [file |-> id, off |-> 0])],
           ev |-> <<Ev("create", id, path)>>] }

\* main.rs 290: the closure of Direct mode, fs::File::create(path)
create_file_direct(path) ==
    LET id == IF fs[path] = 0 THEN Len(files) + 1 ELSE fs[path]
        o == Len(ofds) + 1
    IN  { [ok |-> FALSE, handle |-> NoHandle, w |-> World,
           ev |-> <<Ev("create_failed", 0, path)>>],
          \* O_CREAT | O_TRUNC: a new empty file, or the old one emptied
          [ok |-> TRUE, handle |-> FileHandle(o),
           w |-> [World EXCEPT
                    !.files = IF fs[path] = 0 THEN Append(files, <<>>)
                              ELSE [files EXCEPT ![id] = <<>>],
                    !.fs = [fs EXCEPT ![path] = id],
                    !.ofds = Append(ofds, [file |-> id, off |-> 0])],
           ev |-> <<Ev("create", id, path)>>] }

\* mutant: the Direct closure is used in atomic mode too
create_file_always_direct(path) == create_file_direct(path)

\* main.rs 279-291: which closure create_stdio gets
create_file(path) ==
    IF is_atomic THEN create_file_atomic(path) ELSE create_file_direct(path)

SetWorld(w) ==
    /\ files' = w.files
    /\ fs' = w.fs
    /\ tmpnames' = w.tmpnames
    /\ ofds' = w.ofds
    /\ to_move' = w.to_move

\* -------------------------------------------------------------------------
\* create_stdio (main.rs 53-108)
\* -------------------------------------------------------------------------
\* main.rs 63-69: the stdin handle
WireStdin ==
    /\ pc = "stdin"
    /\ \/ /\ stdin.tag = "Null"
          /\ stdio_in' = NullHandle
          /\ pc' = "outerr"
          /\ UNCHANGED <<panicked, log>>
       \/ /\ stdin.tag = "Inherit"
          /\ stdio_in' = InheritHandle
          /\ pc' = "outerr"
          /\ UNCHANGED <<panicked, log>>
       \/ \* fs::File::open(path): only an existing file can be opened
          /\ stdin.tag = "Redirect"
          /\ fs[stdin.path] # 0
          /\ stdio_in' = [kind |-> "read", ref |-> fs[stdin.path]]
          /\ pc' = "outerr"
          /\ UNCHANGED <<panicked, log>>
       \/ /\ stdin.tag = "Redirect"
          /\ Panic
          /\ log' = Append(log, Ev("panic", 0, "stdin"))
          /\ UNCHANGED stdio_in
    /\ UNCHANGED <<config, disk, to_move, stdio_out, stdio_err, kid,
                   exitcode, sup_exit>>

\* mutant: each stream gets the duplicate of the parent's stream of the
\* same name
WireSwapUncrossed ==
    /\ pc = "outerr"
    /\ stdout.tag = "Other" /\ stderr.tag = "Other"
    /\ stdio_out' = DupStdout
    /\ stdio_err' = DupStderr
    /\ pc' = "workdir"
    /\ UNCHANGED <<config, disk, to_move, stdio_in, kid, exitcode, sup_exit,
                   panicked, log>>

\* main.rs 72-76: both streams are Other: the parent's streams, crossed
WireSwap ==
    /\ pc = "outerr"
    /\ stdout.tag = "Other" /\ stderr.tag = "Other"
    /\ \/ \* let e = parent_stdout(); let o = parent_stderr(); (o, e)
          /\ stdio_out' = DupStderr
          /\ stdio_err' = DupStdout
          /\ pc' = "workdir"
          /\ UNCHANGED <<panicked, log>>
       \/ \* a dup fails
          /\ Panic
          /\ log' = Append(log, Ev("panic", 0, "dup"))
          /\ UNCHANGED <<stdio_out, stdio_err>>
    /\ UNCHANGED <<config, disk, to_move, stdio_in, kid, exitcode, sup_exit>>

\* the path of the (Other, Redirect) | (Redirect, Other) arm
SharedPath == IF stdout.tag = "Redirect" THEN stdout.path ELSE stderr.path

\* mutant: the second handle is a second open of the file, not a duplicate
WireSharedFileReopened ==
    /\ pc = "outerr"
    /\ \/ stdout.tag = "Other" /\ stderr.tag = "Redirect"
       \/ stdout.tag = "Redirect" /\ stderr.tag = "Other"
    /\ \E r \in create_file(SharedPath) :
          /\ \/ /\ r.ok
                /\ SetWorld([r.w EXCEPT
                               !.ofds = Append(@, [file |-> @[r.handle.ref].file,
                                                   off |-> 0])])
                /\ stdio_out' = FileHandle(r.handle.ref + 1)
                /\ stdio_err' = r.handle
                /\ pc' = "workdir"
                /\ log' = log \o r.ev
                /\ UNCHANGED panicked
             \/ /\ ~r.ok
                /\ SetWorld(r.w)
                /\ Panic
                /\ log' = log \o r.ev \o <<Ev("panic", 0, "create_file")>>
                /\ UNCHANGED <<stdio_out, stdio_err>>
    /\ UNCHANGED <<config, stdio_in, kid, exitcode, sup_exit>>

\* main.rs 77-83: one stream is Other, the other a file: one open, one dup
WireSharedFile ==
    /\ pc = "outerr"
    /\ \/ stdout.tag = "Other" /\ stderr.tag = "Redirect"
       \/ stdout.tag = "Redirect" /\ stderr.tag = "Other"
    /\ \E r \in create_file(SharedPath) :
          /\ SetWorld(r.w)
          /\ \/ /\ r.ok
                /\ stdio_out' = r.handle
                /\ stdio_err' = r.handle
                /\ pc' = "workdir"
                /\ log' = log \o r.ev
                /\ UNCHANGED panicked
             \/ \* f.try_clone() fails after the file was created
                /\ r.ok
                /\ Panic
                /\ log' = log \o r.ev \o <<Ev("panic", 0, "try_clone")>>
                /\ UNCHANGED <<stdio_out, stdio_err>>
             \/ /\ ~r.ok
                /\ Panic
                /\ log' = log \o r.ev \o <<Ev("panic", 0, "create_file")>>
                /\ UNCHANGED <<stdio_out, stdio_err>>
    /\ UNCHANGED <<config, stdio_in, kid, exitcode, sup_exit>>

\* the third arm is taken by every other pair
ThirdArm ==
    /\ ~(stdout.tag = "Other" /\ stderr.tag = "Other")
    /\ ~(stdout.tag = "Other" /\ stderr.tag = "Redirect")
    /\ ~(stdout.tag = "Redirect" /\ stderr.tag = "Other")

\* main.rs 85-93 and 94-102: one stream of the third arm.  d is the
\* stream's disposition; the handle goes to stdio_out' or stdio_err'.
WireOne(d, which, nextpc) ==
    \/ /\ d.tag = "Null"
       /\ which' = NullHandle
       /\ pc' = nextpc
       /\ UNCHANGED <<disk, to_move, panicked, log>>
    \/ /\ d.tag = "Inherit"
       /\ which' = InheritHandle
       /\ pc' = nextpc
       /\ UNCHANGED <<disk, to_move, panicked, log>>
    \/ /\ d.tag = "Redirect"
       /\ \E r \in create_file(d.path) :
             /\ SetWorld(r.w)
             /\ \/ /\ r.ok
                   /\ which' = r.handle
                   /\ pc' = nextpc
                   /\ log' = log \o r.ev
                   /\ UNCHANGED panicked
                \/ /\ ~r.ok
                   /\ Panic
                   /\ log' = log \o r.ev \o <<Ev("panic", 0, "create_file")>>
                   /\ UNCHANGED which
    \/ \* _ => unreachable!()
       /\ d.tag = "Other"
       /\ Panic
       /\ log' = Append(log, Ev("panic", 0, "unreachable"))
       /\ UNCHANGED <<which, disk, to_move>>

WireOut ==
    /\ pc = "outerr"
    /\ ThirdArm
    /\ WireOne(stdout, stdio_out, "err")
    /\ UNCHANGED <<config, stdio_in, stdio_err, kid, exitcode, sup_exit>>

\* mutant: stderr is wired from the disposition of stdout
WireErrFromStdout ==
    /\ pc = "err"
    /\ WireOne(stdout, stdio_err, "workdir")
    /\ UNCHANGED <<config, stdio_in, stdio_out, kid, exitcode, sup_exit>>

WireErr ==
    /\ pc = "err"
    /\ WireOne(stderr, stdio_err, "workdir")
    /\ UNCHANGED <<config, stdio_in, stdio_out, kid, exitcode, sup_exit>>

\* main.rs 297-300: create the working directory when --workdir is given
CreateWorkdir ==
    /\ pc = "workdir"
    /\ \/ /\ pc' = "spawn"
          /\ UNCHANGED <<panicked, log>>
       \/ /\ workdir
          /\ Panic
          /\ log' = Append(log, Ev("panic", 0, "workdir"))
    /\ UNCHANGED <<config, disk, to_move, stdio, kid, exitcode, sup_exit>>

\* main.rs 318-319: child.spawn().expect(..)
Spawn ==
    /\ pc = "spawn"
    /\ \/ /\ child' = "running"
          /\ pc' = "wait"
          /\ log' = Append(log, Ev("spawn", 0, ""))
          /\ UNCHANGED panicked
       \/ /\ Panic
          /\ log' = Append(log, Ev("panic", 0, "spawn"))
          /\ UNCHANGED child
    /\ UNCHANGED <<config, disk, to_move, stdio, status, nout, nerr,
                   con_out, con_err, exitcode, sup_exit>>

\* -------------------------------------------------------------------------
\* The child process: it writes to the handles it was spawned with
\* -------------------------------------------------------------------------
\* one byte b written through handle h; own is the stream of the
\* supervisor that an inherited handle of this kind stands for
ChildWrite(h, b, own) ==
    LET target == IF h.kind = "inherit" THEN own
                  ELSE IF h.kind = "dup_parent_stdout" THEN "stdout"
                  ELSE IF h.kind = "dup_parent_stderr" THEN "stderr"
                  ELSE h.kind
    IN  /\ con_out' = IF target = "stdout" THEN Append(con_out, b) ELSE con_out
        /\ con_err' = IF target = "stderr" THEN Append(con_err, b) ELSE con_err
        /\ IF target = "file"
           THEN LET o == ofds[h.ref]
                IN  /\ files' = [files EXCEPT ![o.file] = WriteAt(@, o.off, b)]
                    /\ ofds' = [ofds EXCEPT ![h.ref].off = @ + 1]
           ELSE UNCHANGED <<files, ofds>>

ChildWriteOut ==
    /\ child = "running"
    /\ nout < MaxWrite
    /\ nout' = nout + 1
    /\ ChildWrite(stdio_out, "o", "stdout")
    /\ UNCHANGED <<config, pc, panicked, fs, tmpnames, to_move, stdio, child,
                   status, nerr, exitcode, sup_exit, log>>

ChildWriteErr ==
    /\ child = "running"
    /\ nerr < MaxWrite
    /\ nerr' = nerr + 1
    /\ ChildWrite(stdio_err, "e", "stderr")
    /\ UNCHANGED <<config, pc, panicked, fs, tmpnames, to_move, stdio, child,
                   status, nout, exitcode, sup_exit, log>>

ChildExit ==
    /\ child = "running"
    /\ \E st \in Statuses : status' = st
    /\ child' = "exited"
    /\ UNCHANGED <<config, pc, panicked, disk, to_move, stdio, nout, nerr,
                   con_out, con_err, exitcode, sup_exit, log>>

\* main.rs 321: result.wait().unwrap() returns once the child has exited
Wait ==
    /\ pc = "wait"
    /\ child = "exited"
    /\ child' = "reaped"
    /\ exitcode' = <<status>>
    /\ pc' = "exitfile"
    /\ log' = Append(log, Ev("wait", 0, ""))
    /\ UNCHANGED <<config, panicked, disk, to_move, stdio, status, nout, nerr,
                   con_out, con_err, sup_exit>>

\* mutant: a failed wait() is taken for a child without exit code and the
\* run goes on to the exit file
WaitFailIgnored ==
    /\ pc = "wait"
    /\ exitcode' = <<<<>>>>
    /\ pc' = "exitfile"
    /\ UNCHANGED <<config, panicked, disk, to_move, stdio, kid, sup_exit, log>>

\* main.rs 321: wait() returns Err and unwrap() panics
WaitFail ==
    /\ pc = "wait"
    /\ Panic
    /\ log' = Append(log, Ev("panic", 0, "wait"))
    /\ UNCHANGED <<config, disk, to_move, stdio, kid, exitcode, sup_exit>>

\* -------------------------------------------------------------------------
\* The exit-code file (main.rs 323-338)
\* -------------------------------------------------------------------------
\* NamedTempFile::persist / rename(2): the path now names the temp's inode
Rename(w, id, path) ==
    [w EXCEPT !.fs = [w.fs EXCEPT ![path] = id],
              !.tmpnames = w.tmpnames \ {id}]

\* main.rs 325-331: atomic mode
exit_file_atomic(path, text) ==
    LET id == Len(files) + 1
        made == [World EXCEPT !.files = Append(files, <<>>)]
        written == [World EXCEPT !.files = Append(files, text)]
    IN  { [ok |-> FALSE, w |-> World,
           ev |-> <<Ev("tmp_create_failed", 0, path)>>],
          \* write! fails: tmp is dropped and deleted
          [ok |-> FALSE, w |-> made,
           ev |-> <<Ev("tmp_create", id, path), Ev("tmp_delete", id, path)>>],
          \* persist fails: the PersistError owns tmp and deletes it
          [ok |-> FALSE, w |-> written,
           ev |-> <<Ev("tmp_create", id, path), Ev("exit_write", id, path),
                    Ev("rename_failed", id, path), Ev("tmp_delete", id, path)>>],
          [ok |-> TRUE, w |-> Rename(written, id, path),
           ev |-> <<Ev("tmp_create", id, path), Ev("exit_write", id, path),
                    Ev("rename", id, path)>>] }

\* main.rs 333-336: Direct mode
exit_file_direct(path, text) ==
    LET id == IF fs[path] = 0 THEN Len(files) + 1 ELSE fs[path]
        put(c) == [World EXCEPT
                     !.files = IF fs[path] = 0 THEN Append(files, c)
                               ELSE [files EXCEPT ![id] = c],
                     !.fs = [fs EXCEPT ![path] = id]]
    IN  { [ok |-> FALSE, w |-> World,
           ev |-> <<Ev("create_failed", 0, path)>>],
          \* write! fails after File::create emptied the file
          [ok |-> FALSE, w |-> put(<<>>),
           ev |-> <<Ev("create", id, path)>>],
          [ok |-> TRUE, w |-> put(text),
           ev |-> <<Ev("create", id, path), Ev("exit_write", id, path)>>] }

\* main.rs 328 / 335: the text written
ExitText == Decimal(UnwrapOr0(exitcode[1]))

ExitFile ==
    /\ pc = "exitfile"
    /\ \/ /\ exitfile = <<>>
          /\ pc' = "drain"
          /\ UNCHANGED <<disk, to_move, panicked, log>>
       \/ /\ exitfile # <<>>
          /\ \E r \in IF is_atomic
                      THEN exit_file_atomic(exitfile[1], ExitText)
                      ELSE exit_file_direct(exitfile[1], ExitText) :
                /\ SetWorld(r.w)
                /\ \/ /\ r.ok
                      /\ pc' = "drain"
                      /\ log' = log \o r.ev
                      /\ UNCHANGED panicked
                   \/ /\ ~r.ok
                      /\ Panic
                      /\ log' = log \o r.ev \o <<Ev("panic", 0, "exitfile")>>
    /\ UNCHANGED <<config, stdio, kid, exitcode, sup_exit>>

\* -------------------------------------------------------------------------
\* The scope guard (main.rs 261-265), run when run() returns or unwinds
\* -------------------------------------------------------------------------
\* mutant: the guard persists the first artifact and forgets the rest
persist_first_only(a) ==
    { [w |-> [Rename(World, a.tmp, a.dest) EXCEPT !.to_move = <<>>],
       ev |-> <<Ev("rename", a.tmp, a.dest)>>] }

\* mutant: a failed rename leaves the temp file behind
persist_or_leak(a) ==
    { [w |-> [Rename(World, a.tmp, a.dest) EXCEPT !.to_move = Tail(to_move)],
       ev |-> <<Ev("rename", a.tmp, a.dest)>>],
      [w |-> [World EXCEPT !.to_move = Tail(to_move)],
       ev |-> <<Ev("rename_failed", a.tmp, a.dest)>>] }

\* mutant: the drain stops at the first rename that fails and drops the rest
persist_until_failure(a) ==
    { [w |-> [Rename(World, a.tmp, a.dest) EXCEPT !.to_move = Tail(to_move)],
       ev |-> <<Ev("rename", a.tmp, a.dest)>>],
      [w |-> [World EXCEPT
                !.tmpnames = tmpnames \ {to_move[k].tmp : k \in DOMAIN to_move},
                !.to_move = <<>>],
       ev |-> <<Ev("rename_failed", a.tmp, a.dest),
                Ev("tmp_delete", a.tmp, a.dest)>>] }

\* drop(file.persist(dest)) for the artifact a: the outcomes
persist_and_drop(a) ==
    { [w |-> [Rename(World, a.tmp, a.dest) EXCEPT !.to_move = Tail(to_move)],
       ev |-> <<Ev("rename", a.tmp, a.dest)>>],
      \* Err(PersistError) is dropped: the temp file is deleted
      [w |-> [World EXCEPT !.tmpnames = tmpnames \ {a.tmp},
                           !.to_move = Tail(to_move)],
       ev |-> <<Ev("rename_failed", a.tmp, a.dest),
                Ev("tmp_delete", a.tmp, a.dest)>>] }

\* one iteration of `for (file, dest) in m.drain(..)`
DrainOne ==
    /\ pc = "drain"
    /\ to_move # <<>>
    /\ \E r \in persist_and_drop(Head(to_move)) :
          /\ SetWorld(r.w)
          /\ log' = log \o r.ev
    /\ UNCHANGED <<config, pc, panicked, stdio, kid, exitcode, sup_exit>>

\* main.rs 345-347: the supervisor's exit status
Exit ==
    /\ pc = "drain"
    /\ to_move = <<>>
    /\ pc' = "done"
    /\ sup_exit' = <<IF panicked THEN PanicStatus ELSE UnwrapOr0(exitcode[1])>>
    /\ UNCHANGED <<config, panicked, disk, to_move, stdio, kid, exitcode, log>>

Next ==
    \/ CreateTmpdir
    \/ WireStdin
    \/ WireSwap
    \/ WireSharedFile
    \/ WireOut
    \/ WireErr
    \/ CreateWorkdir
    \/ Spawn
    \/ ChildWriteOut
    \/ ChildWriteErr
    \/ ChildExit
    \/ Wait
    \/ WaitFail
    \/ ExitFile
    \/ DrainOne
    \/ Exit

Spec == Init /\ [][Next]_vars

\* -------------------------------------------------------------------------
\* extract_args on its own (main.rs 215-252): the flags are drawn without
\* the restriction of the argument groups, so that the order in which the
\* code tests them shows
\* -------------------------------------------------------------------------
AnyStreamFlags == [null : Bool, other : Bool, file : FileArgs]
AnyStdinFlags == [null : Bool, file : {<<>>, <<"-">>, <<"A">>}]

InitResolve ==
    /\ is_atomic = FALSE
    /\ in_flags \in AnyStdinFlags
    /\ out_flags \in AnyStreamFlags
    /\ err_flags \in AnyStreamFlags
    /\ exitfile = <<>>
    /\ tmpdir = FALSE
    /\ workdir = FALSE
    /\ fs0 = [p \in Paths |-> Absent]
    /\ pc = "args"
    /\ RunStart
    /\ resolved = <<>>
    /\ EnvUntouched

\* main.rs 217-242: the three dispositions of Argv
ExtractArgs ==
    /\ pc = "args"
    /\ resolved' = [stdin |-> stdin_arg(in_flags),
                    stdout |-> stream_arg(out_flags),
                    stderr |-> stream_arg(err_flags)]
    /\ pc' = "extracted"
    /\ UNCHANGED <<is_atomic, in_flags, out_flags, err_flags, exitfile, tmpdir,
                   workdir, fs0, envs, panicked, disk, to_move, stdio, kid,
                   exitcode, sup_exit, log>>

NextResolve == ExtractArgs

SpecResolve == InitResolve /\ [][NextResolve]_vars

\* -------------------------------------------------------------------------
\* The environment of the child (main.rs 302-316, env_to_kv 112-125).
\* A string is a sequence of characters; an environment is a function from
\* names to values; the Command records its changes as a clear flag and a
\* map from names to <<value>> (set) or <<>> (remove).
\* -------------------------------------------------------------------------
\* at most this many --unset and this many --env options
MaxUnset == 1
MaxSet == 2

EnvNames == {<<"F">>, <<"P">>}
\* F=b, F=, F, F=b=c, P=b
EnvSetArgs == {<<"F", "=", "b">>, <<"F", "=">>, <<"F">>,
               <<"F", "=", "b", "=", "c">>, <<"P", "=", "b">>}
ParentEnvs == {[n \in S |-> <<"p">>] : S \in SUBSET EnvNames}

SeqsUpTo(S, n) == UNION {[1..k -> S] : k \in 0..n}

\* the index of the first '=' of data at or after i, 0 when there is none
RECURSIVE FirstEq(_, _)
FirstEq(data, i) ==
    IF i > Len(data) THEN 0
    ELSE IF data[i] = "=" THEN i
    ELSE FirstEq(data, i + 1)

\* mutant: the argument is split at its last '='
env_to_kv_at_last(arg) ==
    LET eqs == {i \in DOMAIN arg : arg[i] = "="}
        i == CHOOSE e \in eqs : \A x \in eqs : x <= e
    IN  IF eqs = {} THEN <<arg, <<>>>>
        ELSE <<SubSeq(arg, 1, i - 1), SubSeq(arg, i + 1, Len(arg))>>

\* fn env_to_kv: <<key, value>>
env_to_kv(arg) ==
    LET i == FirstEq(arg, 1)
    IN  IF i # 0
        THEN <<SubSeq(arg, 1, i - 1), SubSeq(arg, i + 1, Len(arg))>>
        ELSE <<arg, <<>>>>

\* a map with the key k bound to v, and without the key k
With(m, k, v) == [x \in DOMAIN m \cup {k} |-> IF x = k THEN v ELSE m[x]]
Without(m, k) == [x \in DOMAIN m \ {k} |-> m[x]]

InitEnv ==
    /\ is_atomic = FALSE
    /\ in_flags = [null |-> FALSE, file |-> <<>>]
    /\ out_flags = [null |-> FALSE, other |-> FALSE, file |-> <<>>]
    /\ err_flags = [null |-> FALSE, other |-> FALSE, file |-> <<>>]
    /\ exitfile = <<>>
    /\ tmpdir = FALSE
    /\ workdir = FALSE
    /\ fs0 = [p \in Paths |-> Absent]
    /\ pc = "env_clear"
    /\ RunStart
    /\ resolved = <<>>
    /\ env_args \in [noenv : Bool,
                     unset : SeqsUpTo(EnvNames, MaxUnset),
                     set : SeqsUpTo(EnvSetArgs, MaxSet)]
    /\ parent_env \in ParentEnvs
    /\ unset_it = env_args.unset
    /\ set_it = env_args.set
    /\ cmd_env = NoChanges
    /\ child_env = NoEnv

run_state == <<panicked, disk, to_move, stdio, kid, exitcode, sup_exit, log>>
flags == <<is_atomic, in_flags, out_flags, err_flags, exitfile, tmpdir,
           workdir, fs0, resolved>>

\* main.rs 302-304: child.env_clear() forgets the changes and sets the flag
EnvClear ==
    /\ pc = "env_clear"
    /\ cmd_env' = IF env_args.noenv
                  THEN [clear |-> TRUE, vars |-> NoEnv]
                  ELSE cmd_env
    /\ pc' = "env_unset"
    /\ UNCHANGED <<flags, run_state, env_args, parent_env, unset_it, set_it,
                   child_env>>

\* main.rs 306-310: one child.env_remove(n); a cleared Command forgets the
\* name, any other records the removal
EnvRemove ==
    /\ pc = "env_unset"
    /\ unset_it # <<>>
    /\ cmd_env' = IF cmd_env.clear
                  THEN [cmd_env EXCEPT !.vars = Without(@, Head(unset_it))]
                  ELSE [cmd_env EXCEPT !.vars = With(@, Head(unset_it), <<>>)]
    /\ unset_it' = Tail(unset_it)
    /\ UNCHANGED <<pc, flags, run_state, env_args, parent_env, set_it,
                   child_env>>

\* main.rs 306-310: the loop over argv.env_unset is over
EnvRemoveDone ==
    /\ pc = "env_unset"
    /\ unset_it = <<>>
    /\ pc' = "env_set"
    /\ UNCHANGED <<flags, run_state, envs>>

\* main.rs 312-316: one child.env(k, v) with (k, v) = env_to_kv(arg)
EnvSet ==
    /\ pc = "env_set"
    /\ set_it # <<>>
    /\ LET kv == env_to_kv(Head(set_it))
       IN  cmd_env' = [cmd_env EXCEPT !.vars = With(@, kv[1], <<kv[2]>>)]
    /\ set_it' = Tail(set_it)
    /\ UNCHANGED <<pc, flags, run_state, env_args, parent_env, unset_it,
                   child_env>>

\* the environment a Command with the changes c gives its child
RECURSIVE Apply(_, _, _)
Apply(env, changes, keys) ==
    IF keys = {} THEN env
    ELSE LET k == CHOOSE x \in keys : TRUE
             next == IF changes[k] = <<>> THEN Without(env, k)
                     ELSE With(env, k, changes[k][1])
         IN  Apply(next, changes, keys \ {k})

Captured(c) ==
    Apply(IF c.clear THEN NoEnv ELSE parent_env, c.vars, DOMAIN c.vars)

\* main.rs 318: the child is spawned with the environment of the Command
EnvSpawn ==
    /\ pc = "env_set"
    /\ set_it = <<>>
    /\ child_env' = Captured(cmd_env)
    /\ pc' = "env_done"
    /\ UNCHANGED <<flags, run_state, env_args, parent_env, unset_it, set_it,
                   cmd_env>>

NextEnv ==
    \/ EnvClear
    \/ EnvRemove
    \/ EnvRemoveDone
    \/ EnvSet
    \/ EnvSpawn

SpecEnv == InitEnv /\ [][NextEnv]_vars

\* -------------------------------------------------------------------------
\* Reading the history
\* -------------------------------------------------------------------------
Events(op) == {i \in DOMAIN log : log[i].op = op}
\* how many times the operation op was performed on the inode f
Count(op, f) == Cardinality({i \in Events(op) : log[i].file = f})
\* the inodes of the artifacts registered in to_move so far
Registered == {log[i].file : i \in Events("push")}
\* a rename onto the path p has succeeded
RenamedOnto(p) == \E i \in Events("rename") : log[i].path = p
\* the run panicked at the step named why
PanickedAt(why) == \E i \in Events("panic") : log[i].path = why
Unchanged(p) == ContentOf(p) = fs0[p]

\* -------------------------------------------------------------------------
\* C1
\* -------------------------------------------------------------------------
\* C1 as stated: in atomic mode, as long as the rename of a staged artifact
\* has not succeeded, the artifact's destination holds exactly what it held
\* before the run.
C1_AsStated ==
    is_atomic =>
        \A i \in Events("tmp_create") :
            Count("rename", log[i].file) = 0 => Unchanged(log[i].path)

\* C1, amended: in atomic mode a destination path holds exactly what it held
\* before the run as long as no rename onto that path has succeeded (the
\* rename of another artifact with the same destination changes it).
C1_DestinationUntouchedBeforeRename ==
    is_atomic => \A p \in Paths : ~RenamedOnto(p) => Unchanged(p)

\* the child has written into a staged file whose destination existed
\* before the run and still holds its old content
C1_Witness ==
    /\ is_atomic
    /\ to_move # <<>>
    /\ files[to_move[1].tmp] = <<"o">>
    /\ fs0[to_move[1].dest] = OldContent
    /\ ContentOf(to_move[1].dest) = OldContent
    /\ ~RenamedOnto(to_move[1].dest)

\* -------------------------------------------------------------------------
\* C2
\* -------------------------------------------------------------------------
\* C2: every artifact registered in to_move gets exactly one outcome on
\* every exit path of run(): it is renamed into place or it is dropped
\* (its temp file deleted), never both, and when the supervisor has
\* terminated never none; it is still in to_move exactly while it has none.
C2_DrainedExactlyOnce ==
    \A f \in Registered :
        LET n == Count("rename", f) + Count("tmp_delete", f)
            queued == \E k \in DOMAIN to_move : to_move[k].tmp = f
        IN  /\ n <= 1
            /\ queued <=> n = 0
            /\ pc = "done" => n = 1
            /\ Count("rename", f) = 1 => f \notin tmpnames
            /\ Count("tmp_delete", f) = 1 => f \notin tmpnames

\* a run that panicked after two artifacts were registered has terminated:
\* one artifact was renamed and the other dropped
C2_Witness ==
    /\ pc = "done"
    /\ panicked
    /\ Cardinality(Registered) = 2
    /\ \E f \in Registered : Count("rename", f) = 1
    /\ \E f \in Registered : Count("tmp_delete", f) = 1

\* -------------------------------------------------------------------------
\* C3
\* -------------------------------------------------------------------------
\* C3 as stated: in atomic mode, when creating a later sink or the working
\* directory fails after an artifact was staged, the child is never
\* spawned, no rename is attempted, and once the supervisor has terminated
\* the temp files are gone and the destinations are as they were.
C3_AsStated ==
    (/\ is_atomic
     /\ Registered # {}
     /\ PanickedAt("create_file") \/ PanickedAt("workdir"))
    => /\ child = "none"
       /\ Events("rename") = {}
       /\ Events("rename_failed") = {}
       /\ pc = "done" =>
            /\ tmpnames = {}
            /\ \A i \in Events("push") : Unchanged(log[i].path)

\* -------------------------------------------------------------------------
\* C4
\* -------------------------------------------------------------------------
\* C4 as stated: in atomic mode, when the spawn fails after an artifact was
\* staged, no staged file is renamed and every staged destination is left
\* absent or unchanged.
C4_AsStated ==
    (is_atomic /\ Registered # {} /\ PanickedAt("spawn"))
    => /\ Events("rename") = {}
       /\ \A i \in Events("push") : Unchanged(log[i].path)

\* -------------------------------------------------------------------------
\* C5
\* -------------------------------------------------------------------------
\* the number of output artifacts the command line asks for
Requested ==
    (IF ThirdArm
     THEN (IF stdout.tag = "Redirect" THEN 1 ELSE 0)
          + (IF stderr.tag = "Redirect" THEN 1 ELSE 0)
     ELSE IF stdout.tag = "Other" /\ stderr.tag = "Other" THEN 0 ELSE 1)
    + (IF exitfile # <<>> THEN 1 ELSE 0)

\* C5 as stated: in atomic mode, when the supervisor has terminated, either
\* every requested artifact was put at its final path by a run that
\* completed, or none was put at its final path.
C5_AsStated ==
    (is_atomic /\ pc = "done")
    => \/ Events("rename") = {}
       \/ ~panicked /\ Cardinality(Events("rename")) = Requested

\* C5, amended: in atomic mode artifacts are committed one file at a time.
\* When the supervisor has terminated, every destination path either holds
\* what it held before the run or names a staged file that was renamed onto
\* it; and if the run returned normally and no rename failed, every
\* requested artifact has been renamed to its final path.  When a step
\* fails, any subset of the artifacts may have been renamed.
C5_PerFileCommit ==
    (is_atomic /\ pc = "done")
    => /\ \A p \in Paths :
            \/ Unchanged(p)
            \/ \E i \in Events("rename") :
                  log[i].path = p /\ log[i].file = fs[p]
       /\ (~panicked /\ Events("rename_failed") = {})
            => Cardinality(Events("rename")) = Requested

\* a run with three requested artifacts returned normally and all three
\* were renamed
C5_Witness ==
    /\ is_atomic
    /\ pc = "done"
    /\ ~panicked
    /\ Requested = 3
    /\ Cardinality(Events("rename")) = 3
    /\ nout = 1

\* -------------------------------------------------------------------------
\* C6
\* -------------------------------------------------------------------------
\* nothing but renames failed in this run
OnlyRenamesFailed ==
    /\ Events("tmp_create_failed") = {}
    /\ Events("create_failed") = {}
    /\ \A i \in Events("panic") :
          /\ log[i].path = "exitfile"
          /\ i > 2
          /\ log[i - 2].op = "rename_failed"

\* C6 as stated: once the child was spawned and waited on, a failed rename
\* of a staged artifact (stdout, stderr or exit-code file) leaves the
\* supervisor's exit code equal to the child's exit code.
C6_AsStated ==
    (/\ pc = "done"
     /\ exitcode # <<>>
     /\ Events("rename_failed") # {}
     /\ OnlyRenamesFailed)
    => sup_exit = <<IF status = <<>> THEN 0 ELSE status[1]>>

\* -------------------------------------------------------------------------
\* C7
\* -------------------------------------------------------------------------
\* C7 as stated: every disposition pair other than (Shared, Shared),
\* (Shared, Redirect) and (Redirect, Shared) is wired stream by stream
\* without reaching an unreachable!() arm, and when no file operation
\* fails the wiring yields a handle for each of the three streams.
C7_AsStated ==
    ThirdArm =>
        /\ ~PanickedAt("unreachable")
        /\ pc \in {"workdir", "spawn", "wait", "exitfile"} =>
              /\ stdio_in # NoHandle
              /\ stdio_out # NoHandle
              /\ stdio_err # NoHandle

\* -------------------------------------------------------------------------
\* C8
\* -------------------------------------------------------------------------
\* C8: when stdout and stderr are both Shared, in either mode, wiring opens
\* no destination file and registers no artifact; the child's stdout is a
\* duplicate of the supervisor's stderr and its stderr a duplicate of the
\* supervisor's stdout, so what the child writes to stdout arrives on the
\* supervisor's stderr and what it writes to stderr on the supervisor's
\* stdout.
C8_CrossSwap ==
    (stdout.tag = "Other" /\ stderr.tag = "Other")
    => /\ ofds = <<>>
       /\ to_move = <<>>
       /\ Registered = {}
       /\ pc \in {"tmpdir", "stdin", "outerr", "exitfile"} =>
             \A p \in Paths : Unchanged(p)
       /\ stdio_out \in {NoHandle, DupStderr}
       /\ stdio_err \in {NoHandle, DupStdout}
       /\ child # "none" =>
             /\ stdio_out.kind = "dup_parent_stderr"
             /\ stdio_err.kind = "dup_parent_stdout"
             /\ con_err = [k \in 1..nout |-> "o"]
             /\ con_out = [k \in 1..nerr |-> "e"]

\* with --out-err and --err-out the child has written to both streams
C8_Witness ==
    /\ stdout.tag = "Other"
    /\ stderr.tag = "Other"
    /\ child = "reaped"
    /\ nout = 1
    /\ nerr = 1
    /\ con_err = <<"o">>
    /\ con_out = <<"e">>

\* -------------------------------------------------------------------------
\* C9
\* -------------------------------------------------------------------------
DigitOf(c) ==
    CASE c = "0" -> 0 [] c = "1" -> 1 [] c = "2" -> 2 [] c = "3" -> 3
      [] c = "4" -> 4 [] c = "5" -> 5 [] c = "6" -> 6 [] c = "7" -> 7
      [] c = "8" -> 8 [] c = "9" -> 9

RECURSIVE ValueOf(_)
ValueOf(text) ==
    IF text = <<>> THEN 0
    ELSE 10 * ValueOf(SubSeq(text, 1, Len(text) - 1)) + DigitOf(text[Len(text)])

\* text is the decimal numeral of n: digits only, no leading zero
IsDecimalOf(text, n) ==
    /\ Len(text) >= 1
    /\ \A k \in DOMAIN text :
          text[k] \in {"0", "1", "2", "3", "4", "5", "6", "7", "8", "9"}
    /\ Len(text) > 1 => text[1] # "0"
    /\ ValueOf(text) = n

\* the child's numeric exit code, 0 when it has none
ChildCode == IF status = <<>> THEN 0 ELSE status[1]

NoShared == stdout.tag # "Other" /\ stderr.tag # "Other"

\* the run returned normally and every rename succeeded
Completed == pc = "done" /\ ~panicked /\ Events("rename_failed") = {}

\* each redirected file holds exactly what the child wrote to its stream
EachFileHoldsItsStream ==
    /\ stdout.tag = "Redirect" => ContentOf(stdout.path) = [k \in 1..nout |-> "o"]
    /\ stderr.tag = "Redirect" => ContentOf(stderr.path) = [k \in 1..nerr |-> "e"]

\* the destinations of --out-file, --err-file and --exit-file differ
DistinctDestinations ==
    /\ (stdout.tag = "Redirect" /\ stderr.tag = "Redirect")
          => stdout.path # stderr.path
    /\ \A d \in {stdout, stderr} :
          (d.tag = "Redirect" /\ exitfile # <<>>) => d.path # exitfile[1]

\* C10 as stated: without Shared, in both modes and for every choice of
\* destination paths, equal paths included, after a completed run each
\* redirected file holds exactly the bytes of its own stream.
C10_AsStated == (NoShared /\ Completed) => EachFileHoldsItsStream

\* C10, amended: without Shared, in both modes and for every choice of
\* pairwise distinct destination paths (--out-file, --err-file and
\* --exit-file all different), after a completed run each redirected file
\* holds exactly the bytes the child wrote to its own stream.
C10_StreamsSeparated ==
    (NoShared /\ DistinctDestinations /\ Completed) => EachFileHoldsItsStream

\* stdout, stderr and the exit code went to three different files and the
\* child wrote to both streams
C10_Witness ==
    /\ Completed
    /\ stdout = Redirect("A")
    /\ stderr = Redirect("B")
    /\ exitfile = <<"C">>
    /\ fs0["A"] = OldContent
    /\ ContentOf("A") = <<"o">>
    /\ ContentOf("B") = <<"e">>

\* -------------------------------------------------------------------------
\* C11
\* -------------------------------------------------------------------------
\* the inodes of the temp files the supervisor created
TempsCreated == {log[i].file : i \in Events("tmp_create")}

\* C11: in atomic mode, when the supervisor has terminated (by return or by
\* any panic), no temp file it created still has a name in the staging
\* directory: each one was renamed to its destination or deleted, not both.
C11_NoTempLeft ==
    (is_atomic /\ pc = "done")
    => /\ tmpnames = {}
       /\ \A f \in TempsCreated :
             Count("rename", f) + Count("tmp_delete", f) = 1

\* a run terminated by a panic after it created three temp files: some
\* rename failed, some temp was renamed, and none is left
C11_Witness ==
    /\ is_atomic
    /\ pc = "done"
    /\ panicked
    /\ Cardinality(TempsCreated) = 3
    /\ Events("rename_failed") # {}
    /\ Events("rename") # {}
    /\ tmpnames = {}

\* -------------------------------------------------------------------------
\* C14
\* -------------------------------------------------------------------------
\* the attempts to rename a staged file, failed ones included
RenameAttempts == Events("rename") \cup Events("rename_failed")

\* C14 as stated: every rename of a staged artifact is attempted strictly
\* after the child has been waited on, never while the child has not been
\* spawned or has not been reaped.
C14_AsStated ==
    \A i \in RenameAttempts : \E j \in Events("wait") : j < i

\* -------------------------------------------------------------------------
\* C15
\* -------------------------------------------------------------------------
\* the last successful rename onto the path p, 0 when there is none
LastRenameOnto(p) ==
    LET onto == {i \in Events("rename") : log[i].path = p}
    IN  IF onto = {} THEN 0 ELSE CHOOSE i \in onto : \A j \in onto : j <= i

\* C15: when the supervisor has terminated, the rename of every registered
\* artifact has been attempted exactly once, whichever other renames failed,
\* and a failed rename undoes nothing: every path onto which a staged file
\* was renamed still names the file of the last rename onto it.
C15_DrainContinuesAfterFailure ==
    /\ pc = "done" =>
          \A f \in Registered :
              Cardinality({i \in RenameAttempts : log[i].file = f}) = 1
    /\ \A p \in Paths :
          LastRenameOnto(p) # 0 => fs[p] = log[LastRenameOnto(p)].file

\* the rename of the first of two artifacts succeeded, the rename of the
\* second failed, or the other way around with the failure first
C15_Witness ==
    /\ pc = "done"
    /\ Cardinality(Registered) = 2
    /\ \E i \in Events("rename_failed") : \E j \in Events("rename") :
          /\ i < j
          /\ log[i].file \in Registered
          /\ log[j].file \in Registered
          /\ fs[log[j].path] = log[j].file

\* -------------------------------------------------------------------------
\* C16
\* -------------------------------------------------------------------------
\* C16 as stated: every failed rename of a staged artifact is reported.
\* The only diagnostics of the program are the messages of its panics, so a
\* reported failure is one that a panic follows.
C16_AsStated ==
    pc = "done" =>
        \A i \in Events("rename_failed") :
            \E j \in Events("panic") : j > i

\* -------------------------------------------------------------------------
\* C17
\* -------------------------------------------------------------------------
\* one of stdout / stderr is Shared and the other a file
SharedWithFile ==
    \/ stdout.tag = "Other" /\ stderr.tag = "Redirect"
    \/ stdout.tag = "Redirect" /\ stderr.tag = "Other"

\* the files the supervisor opened or staged for the streams
Provisioned == Events("create") \cup Events("tmp_create")

\* C17: when one of stdout / stderr is Shared and the other Redirect(p), in
\* either order, the provisioner is called once, for p; after a successful
\* wiring both streams of the child are attached to the same open file
\* description, so the bytes of both streams follow one another in one file
\* and none overwrites another; in atomic mode exactly one artifact, for p,
\* is registered.
C17_OneSharedHandle ==
    SharedWithFile =>
        /\ Len(ofds) <= 1
        /\ \A i \in Provisioned :
              (\A j \in Events("wait") : i < j) => log[i].path = SharedPath
        /\ Cardinality({i \in Provisioned : \A j \in Events("wait") : i < j}) <= 1
        /\ Cardinality(Events("push")) <= 1
        /\ pc \in {"workdir", "spawn", "wait", "exitfile"} =>
              /\ stdio_out.kind = "file"
              /\ stdio_err = stdio_out
              /\ Len(ofds) = 1
              /\ is_atomic =>
                    to_move = <<[tmp |-> ofds[1].file, dest |-> SharedPath]>>
              /\ ~is_atomic => fs[SharedPath] = ofds[1].file
        /\ (child # "none" /\ Cardinality(Events("create")) <= 1) =>
              /\ Len(files[ofds[1].file]) = nout + nerr
              /\ ofds[1].off = nout + nerr

\* with --out-err and --err-file the child has written to both streams
\* and the one file holds both bytes
C17_Witness ==
    /\ stdout.tag = "Other"
    /\ stderr.tag = "Redirect"
    /\ is_atomic
    /\ child = "exited"
    /\ nout = 1
    /\ nerr = 1
    /\ Len(to_move) = 1
    /\ files[to_move[1].tmp] = <<"e", "o">>

\* -------------------------------------------------------------------------
\* C18
\* -------------------------------------------------------------------------
\* the inodes the exit code was written to
ExitArtifacts == {log[i].file : i \in Events("exit_write")}

\* C18 as stated: in atomic mode the exit-code artifact is registered as a
\* pending artifact and renamed by the drain, never on its own while
\* stdout / stderr artifacts are still waiting to be renamed.
C18_AsStated ==
    is_atomic =>
        \A i \in Events("rename") :
            log[i].file \in ExitArtifacts =>
                /\ log[i].file \in Registered
                /\ \A f \in Registered \ {log[i].file} :
                      \E j \in RenameAttempts : log[j].file = f /\ j < i

\* -------------------------------------------------------------------------
\* C19
\* -------------------------------------------------------------------------
\* the supervisor opened, staged or wrote a file as log entry i after it
\* had tried to spawn the child or had panicked
AfterSpawnAttempt(i) ==
    \E j \in Events("spawn") \cup Events("panic") : j < i

\* the --exit-file path is not also the destination of stdout or stderr
ExitPathApart ==
    \A d \in {stdout, stderr} : d.tag = "Redirect" => d.path # exitfile[1]

\* C19 as stated: as long as the child has not been spawned and waited on,
\* the --exit-file destination holds what it held before the run, and no
\* file is created or written for the exit code.
C19_AsStated ==
    (exitfile # <<>> /\ Events("wait") = {})
    => /\ Unchanged(exitfile[1])
       /\ \A i \in Provisioned \cup Events("exit_write") : ~AfterSpawnAttempt(i)

\* C19, amended: when the --exit-file path is not also the destination of
\* --out-file or --err-file, then as long as the child has not been spawned
\* and waited on the --exit-file destination holds what it held before the
\* run; and for every choice of paths no file is created or written for the
\* exit code before the child has been waited on.
C19_ExitFileOnlyAfterWait ==
    (exitfile # <<>> /\ Events("wait") = {})
    => /\ ExitPathApart => Unchanged(exitfile[1])
       /\ \A i \in Provisioned \cup Events("exit_write") : ~AfterSpawnAttempt(i)

\* the wait failed and the supervisor has terminated: the exit file, which
\* existed before the run, is as it was
C19_Witness ==
    /\ exitfile = <<"C">>
    /\ PanickedAt("wait")
    /\ pc = "done"
    /\ stdout.tag = "Redirect"
    /\ fs0["C"] = OldContent
    /\ ContentOf("C") = OldContent

\* -------------------------------------------------------------------------
\* C20
\* -------------------------------------------------------------------------
\* the destinations of the redirected output streams
StreamDestinations ==
    {d.path : d \in {x \in {stdout, stderr} : x.tag = "Redirect"}}

\* C20: in Direct mode, once wiring has succeeded every Redirect
\* destination of stdout / stderr exists and is empty before the working
\* directory is created and before the spawn, and it stays so when the
\* working directory or the spawn fails, whatever it held before the run.
C20_DirectTruncatesBeforeSpawn ==
    ~is_atomic
    => /\ pc \in {"workdir", "spawn"} =>
             \A p \in StreamDestinations : ContentOf(p) = <<>>
       /\ (PanickedAt("workdir") \/ PanickedAt("spawn")) =>
             \A p \in StreamDestinations : ContentOf(p) = <<>>

\* the spawn failed in Direct mode: the destination that held old content
\* is empty when the supervisor has terminated
C20_Witness ==
    /\ ~is_atomic
    /\ pc = "done"
    /\ PanickedAt("spawn")
    /\ stdout = Redirect("A")
    /\ fs0["A"] = OldContent
    /\ ContentOf("A") = <<>>

\* -------------------------------------------------------------------------
\* C12
\* -------------------------------------------------------------------------
\* a path value that names a file: present and not "-"
NamesFile(file) == file # <<>> /\ file # <<"-">>

\* C12: extract_args gives each stream exactly one disposition: Null when
\* the null flag is given; otherwise Shared when the share flag is given
\* (stdout and stderr only); otherwise Redirect to the path value when it
\* names a file; otherwise Inherit, which is the case without a path value
\* and with the path value "-".  No Redirect names "-".
C12_Precedence ==
    pc = "extracted" =>
        /\ \A s \in {<<out_flags, resolved.stdout>>, <<err_flags, resolved.stderr>>} :
              LET f == s[1]
                  d == s[2]
              IN  /\ f.null => d.tag = "Null"
                  /\ (~f.null /\ f.other) => d.tag = "Other"
                  /\ (~f.null /\ ~f.other /\ NamesFile(f.file))
                        => d.tag = "Redirect" /\ d.path = f.file[1]
                  /\ (~f.null /\ ~f.other /\ ~NamesFile(f.file))
                        => d.tag = "Inherit"
                  /\ d.tag = "Redirect" => d.path # "-"
        /\ LET f == in_flags
               d == resolved.stdin
           IN  /\ f.null => d.tag = "Null"
               /\ (~f.null /\ NamesFile(f.file))
                     => d.tag = "Redirect" /\ d.path = f.file[1]
               /\ (~f.null /\ ~NamesFile(f.file)) => d.tag = "Inherit"
               /\ d.tag \in {"Null", "Inherit", "Redirect"}
               /\ d.tag = "Redirect" => d.path # "-"

\* all three flags of stdout were given and Null won; stderr had the share
\* flag and a path and Shared won; stdin had the path "-" and inherits
C12_Witness ==
    /\ pc = "extracted"
    /\ out_flags = [null |-> TRUE, other |-> TRUE, file |-> <<"A">>]
    /\ err_flags = [null |-> FALSE, other |-> TRUE, file |-> <<"B">>]
    /\ in_flags = [null |-> FALSE, file |-> <<"-">>]
    /\ resolved = [stdin |-> Inherit, stdout |-> Null, stderr |-> Other]

\* -------------------------------------------------------------------------
\* C13
\* -------------------------------------------------------------------------
\* the length of the longest prefix of arg without '='
KeyLength(arg) ==
    CHOOSE n \in 0..Len(arg) :
        /\ \A i \in 1..n : arg[i] # "="
        /\ n = Len(arg) \/ arg[n + 1] = "="
KeyOf(arg) == SubSeq(arg, 1, KeyLength(arg))
ValueAfterKey(arg) == SubSeq(arg, KeyLength(arg) + 2, Len(arg))

\* C13: the child's environment holds exactly the names set by --env,
\* together with, unless --no-environment is given, the names of the
\* supervisor's environment that no --unset names.  A name set by --env has
\* the value of the last --env for it, the text after the first '=' (empty
\* when there is no '=' or nothing after it), also when the name is unset
\* as well; any other name keeps the supervisor's value.
C13_ChildEnvironment ==
    pc = "env_done" =>
        LET set == env_args.set
            setKeys == {KeyOf(set[i]) : i \in DOMAIN set}
            unsetNames == {env_args.unset[i] : i \in DOMAIN env_args.unset}
            inherited == IF env_args.noenv THEN {}
                         ELSE DOMAIN parent_env \ unsetNames
            last(k) == CHOOSE i \in DOMAIN set :
                          /\ KeyOf(set[i]) = k
                          /\ \A j \in DOMAIN set : KeyOf(set[j]) = k => j <= i
        IN  /\ DOMAIN child_env = setKeys \cup inherited
            /\ \A k \in DOMAIN child_env :
                  child_env[k] = IF k \in setKeys
                                 THEN ValueAfterKey(set[last(k)])
                                 ELSE parent_env[k]

\* --unset F --env F=b=c --env F= in a supervisor that has F and P: the
\* child has F, unset and set twice, with the empty value, and P inherited
C13_Witness ==
    /\ pc = "env_done"
    /\ ~env_args.noenv
    /\ env_args.unset = <<<<"F">>>>
    /\ env_args.set = <<<<"F", "=", "b", "=", "c">>, <<"F", "=">>>>
    /\ DOMAIN parent_env = EnvNames
    /\ DOMAIN child_env = EnvNames
    /\ child_env[<<"F">>] = <<>>
    /\ child_env[<<"P">>] = <<"p">>
====
